---- MODULE Spec2Model ----
(***************************************************************************)
(* A model of the PLU parser service (src/index.js): the request handler   *)
(* of POST /api/plu-parse as a state machine, and the pure text functions  *)
(* it calls as operators.                                                  *)
(*                                                                         *)
(* Text is a sequence of one-character strings.  Characters outside ASCII  *)
(* are written by name: "e_acute", "e_grave", "sup2" (superscript two),    *)
(* "endash", "div" (the division sign).  A JavaScript regular expression   *)
(* is a tree of nodes, matched by backtracking in the priority order of    *)
(* the ECMAScript semantics (Ends lists the possible ends of a match at a  *)
(* position, most preferred first).                                        *)
(***************************************************************************)
EXTENDS Integers, Sequences, FiniteSets, TLC

\* ---------------------------------------------------------------- text

UpperAlpha == <<"A", "B", "C", "D", "E", "F", "G", "H", "I", "J", "K", "L", "M", "N", "O", "P", "Q", "R", "S", "T", "U", "V", "W", "X", "Y", "Z">>
LowerAlpha == <<"a", "b", "c", "d", "e", "f", "g", "h", "i", "j", "k", "l", "m", "n", "o", "p", "q", "r", "s", "t", "u", "v", "w", "x", "y", "z">>
Digits == {"0", "1", "2", "3", "4", "5", "6", "7", "8", "9"}
UpperSet == {UpperAlpha[i] : i \in 1..26}
LowerSet == {LowerAlpha[i] : i \in 1..26}
\* \w, \s of a JavaScript regular expression (no u flag)
WordChars == UpperSet \cup LowerSet \cup Digits \cup {"_"}
Spaces == {" ", "\n", "\t", "\r"}

LowerOf == [c \in UpperSet |-> LowerAlpha[CHOOSE i \in 1..26 : UpperAlpha[i] = c]]
UpperOf == [c \in LowerSet |-> UpperAlpha[CHOOSE i \in 1..26 : LowerAlpha[i] = c]]
ToLowerChar(c) == IF c \in UpperSet THEN LowerOf[c] ELSE c
ToUpperChar(c) == IF c \in LowerSet THEN UpperOf[c] ELSE c
\* String.prototype.toLowerCase / toUpperCase
toLowerCase(s) == [i \in 1..Len(s) |-> ToLowerChar(s[i])]
toUpperCase(s) == [i \in 1..Len(s) |-> ToUpperChar(s[i])]

\* String.prototype.slice(a, b) for 0 <= a; b is clamped to the length
Slice(s, a, b) ==
  LET e == IF b > Len(s) THEN Len(s) ELSE b
  IN IF a >= e THEN <<>> ELSE SubSeq(s, a + 1, e)

RECURSIVE Repeat(_, _)
Repeat(s, n) == IF n <= 0 THEN <<>> ELSE s \o Repeat(s, n - 1)

Min(S) == CHOOSE x \in S : \A y \in S : x <= y

\* ------------------------------------------------- regular expressions

Node(k, set, rs, lo, hi) == [k |-> k, set |-> set, rs |-> rs, lo |-> lo, hi |-> hi]
Cls(S) == Node("cls", S, <<>>, 0, 0)
Cat(rs) == Node("cat", {}, rs, 0, 0)
Alt(rs) == Node("alt", {}, rs, 0, 0)
Rep(r, lo, hi) == Node("rep", {}, <<r>>, lo, hi)
Star(r) == Rep(r, 0, -1)
Plus(r) == Rep(r, 1, -1)
Opt(r) == Rep(r, 0, 1)
NotAhead(r) == Node("nla", {}, <<r>>, 0, 0)
WB == Node("wb", {}, <<>>, 0, 0)
BOL == Node("bol", {}, <<>>, 0, 0)
EOL == Node("eol", {}, <<>>, 0, 0)
Lit(s) == Cat([i \in 1..Len(s) |-> Cls({s[i]})])
Ch(c) == Cls({c})
D == Cls(Digits)
WS == Cls(Spaces)

\* a character against a class, under the i flag or not
CharIn(c, S, ci) ==
  c \in S \/ (ci /\ (ToLowerChar(c) \in S \/ ToUpperChar(c) \in S))

IsWordAt(s, p) == p >= 1 /\ p <= Len(s) /\ s[p] \in WordChars

RECURSIVE Ends(_, _, _, _)
RECURSIVE CatEnds(_, _, _, _, _)
RECURSIVE CatFrom(_, _, _, _, _)
RECURSIVE AltEnds(_, _, _, _, _)
RECURSIVE RepEnds(_, _, _, _, _, _)
RECURSIVE RepFrom(_, _, _, _, _, _)

\* The ends of the matches of r in s that start at offset i (i characters
\* before the match), in the order backtracking tries them.
Ends(r, s, i, ci) ==
  CASE r.k = "cls" -> IF i < Len(s) /\ CharIn(s[i + 1], r.set, ci) THEN <<i + 1>> ELSE <<>>
    [] r.k = "cat" -> CatEnds(r.rs, 1, s, i, ci)
    [] r.k = "alt" -> AltEnds(r.rs, 1, s, i, ci)
    [] r.k = "rep" -> RepEnds(r.rs[1], r.lo, r.hi, s, i, ci)
    [] r.k = "nla" -> IF Ends(r.rs[1], s, i, ci) = <<>> THEN <<i>> ELSE <<>>
    [] r.k = "wb" -> IF IsWordAt(s, i) # IsWordAt(s, i + 1) THEN <<i>> ELSE <<>>
    [] r.k = "bol" -> IF i = 0 THEN <<i>> ELSE <<>>
    [] r.k = "eol" -> IF i = Len(s) THEN <<i>> ELSE <<>>

CatEnds(rs, j, s, i, ci) ==
  IF j > Len(rs) THEN <<i>> ELSE CatFrom(rs, j + 1, s, Ends(rs[j], s, i, ci), ci)

CatFrom(rs, j, s, starts, ci) ==
  IF starts = <<>> THEN <<>>
  ELSE CatEnds(rs, j, s, Head(starts), ci) \o CatFrom(rs, j, s, Tail(starts), ci)

AltEnds(rs, j, s, i, ci) ==
  IF j > Len(rs) THEN <<>> ELSE Ends(rs[j], s, i, ci) \o AltEnds(rs, j + 1, s, i, ci)

\* a greedy quantifier {lo,hi} (hi = -1: no upper limit); an iteration that
\* consumes nothing ends the repetition
RepEnds(r, lo, hi, s, i, ci) ==
  LET once == SelectSeq(Ends(r, s, i, ci), LAMBDA e : e > i)
      more == IF hi = 0 THEN <<>>
              ELSE RepFrom(r, IF lo > 0 THEN lo - 1 ELSE 0, IF hi > 0 THEN hi - 1 ELSE hi, s, once, ci)
  IN more \o (IF lo = 0 THEN <<i>> ELSE <<>>)

RepFrom(r, lo, hi, s, starts, ci) ==
  IF starts = <<>> THEN <<>>
  ELSE RepEnds(r, lo, hi, s, Head(starts), ci) \o RepFrom(r, lo, hi, s, Tail(starts), ci)

NoMatch == [index |-> -1, end |-> -1]

\* the leftmost position that has a match and the end backtracking finds
\* first there; ends[m] lists the ends of the matches that start at m
Hits(ends) == {m \in DOMAIN ends : ends[m] # <<>>}
MatchAt(ends, m) == [index |-> m, end |-> Head(ends[m])]
Leftmost(ends) == IF Hits(ends) = {} THEN NoMatch ELSE MatchAt(ends, Min(Hits(ends)))

\* RegExp.prototype.exec from lastIndex `from`
Exec(r, s, from, ci) == Leftmost([m \in from..Len(s) |-> Ends(r, s, m, ci)])

\* RegExp.prototype.test
Test(r, s, ci) == Exec(r, s, 0, ci).index >= 0

\* the text of a match
Matched(s, m) == Slice(s, m.index, m.end)

\* String.prototype.replace of the match m (none: index -1) by `by`
Replace(s, m, by) ==
  IF m.index < 0 THEN s ELSE Slice(s, 0, m.index) \o by \o Slice(s, m.end, Len(s))

\* ------------------------------------------------------ JavaScript values

\* A value of the program: null, undefined, a number, a string or a boolean.
\* A number is held in ten-thousandths (1.5 is 15000), a boolean as 0 or 1.
Null == [t |-> "null", n |-> 0, s |-> <<>>]
Undefined == [t |-> "undefined", n |-> 0, s |-> <<>>]
Num(n) == [t |-> "num", n |-> n, s |-> <<>>]
Str(s) == [t |-> "str", n |-> 0, s |-> s]
Bool(b) == [t |-> "bool", n |-> IF b THEN 1 ELSE 0, s |-> <<>>]
Unit == 100 * 100
\* ToBoolean
Truthy(v) ==
  CASE v.t = "num" -> v.n # 0
    [] v.t = "str" -> v.s # <<>>
    [] v.t = "bool" -> v.n = 1
    [] OTHER -> FALSE
\* a || b
OrElse(a, b) == IF Truthy(a) THEN a ELSE b

\* ------------------------------------------------------------- helpers

\* String.prototype.trim
Trim(s) ==
  LET inked == {i \in 1..Len(s) : s[i] \notin Spaces}
  IN IF inked = {} THEN <<>> ELSE SubSeq(s, Min(inked), CHOOSE i \in inked : \A j \in inked : j <= i)

\* .replace(/\s+/g, " ")
CollapseSpaces(s) ==
  LET kept == SelectSeq([i \in 1..Len(s) |-> i], LAMBDA i : ~(s[i] \in Spaces /\ i > 1 /\ s[i - 1] \in Spaces))
  IN [k \in 1..Len(kept) |-> IF s[kept[k]] \in Spaces THEN " " ELSE s[kept[k]]]

ZonePrefixRe == Cat(<<BOL, Lit(<<"Z", "O", "N", "E">>), Plus(WS)>>)

\* normalizeZoneCode throws a TypeError on a truthy value that has no trim()
normalizeZoneCodeThrows(code) == Truthy(code) /\ code.t # "str"

\* normalized.replace(/^ZONE\s+/i, "")
StripZonePrefix(normalized) == Replace(normalized, Exec(ZonePrefixRe, normalized, 0, TRUE), <<>>)

normalizeZoneCode(code) ==
  IF ~Truthy(code) THEN Null
  ELSE OrElse(Str(StripZonePrefix(toUpperCase(Trim(code.s)))), Null)

DigitValue(c) == CHOOSE d \in 0..9 : <<"0", "1", "2", "3", "4", "5", "6", "7", "8", "9">>[d + 1] = c

RECURSIVE DigitsValue(_)
DigitsValue(s) == IF s = <<>> THEN 0 ELSE 10 * DigitsValue(SubSeq(s, 1, Len(s) - 1)) + DigitValue(s[Len(s)])

\* parseFloat of <digits> or <digits>.<digits>, in ten-thousandths (digits
\* past the fourth decimal are dropped)
ParseFloat(s) ==
  LET dots == {i \in 1..Len(s) : s[i] = "."}
      p == IF dots = {} THEN Len(s) + 1 ELSE Min(dots)
      frac == Slice(Slice(s, p, Len(s)) \o <<"0", "0", "0", "0">>, 0, 4)
  IN DigitsValue(SubSeq(s, 1, p - 1)) * Unit + DigitsValue(frac)

\* parseFrenchDecimal of the text of a numeric capture
parseFrenchDecimal(str) ==
  IF str = <<>> THEN Null
  ELSE LET commas == {i \in 1..Len(str) : str[i] = ","}
           dotted == IF commas = {} THEN str ELSE [str EXCEPT ![Min(commas)] = "."]
           cleaned == SelectSeq(dotted, LAMBDA c : c \notin Spaces)
       IN Num(ParseFloat(cleaned))

\* (\d+(?:[.,]\d+)?)
NUM == Cat(<<Plus(D), Opt(Cat(<<Cls({".", ","}), Plus(D)>>))>>)
\* (?!\s*(?:sup2|2)) and (?!\s*(?:sup2|2|\d))
NotSurface == NotAhead(Cat(<<Star(WS), Cls({"sup2", "2"})>>))
NotSurfaceOrDigit == NotAhead(Cat(<<Star(WS), Cls({"sup2", "2"} \cup Digits)>>))

\* The loop every extractor runs: the first pattern that matches gives
\* match[0], whose first number is parsed.
RECURSIVE FirstNumber(_, _, _)
\* numMatch = match[0].match(/(\d+(?:[.,]\d+)?)/)
NumberOrNext(patterns, j, text, m0, numMatch) ==
  IF numMatch.index >= 0 THEN parseFrenchDecimal(Matched(m0, numMatch))
  ELSE FirstNumber(patterns, j + 1, text)
\* match = text.match(patterns[j])
MatchOrNext(patterns, j, text, match) ==
  IF match.index >= 0
  THEN NumberOrNext(patterns, j, text, Matched(text, match), Exec(NUM, Matched(text, match), 0, FALSE))
  ELSE FirstNumber(patterns, j + 1, text)
FirstNumber(patterns, j, text) ==
  IF j > Len(patterns) THEN Null
  ELSE MatchOrNext(patterns, j, text, Exec(patterns[j], text, 0, TRUE))

MetersPatterns == <<
  Cat(<<NUM, Star(WS), Ch("m"), Opt(Cls({"e_grave", "e"})), Lit(<<"t", "r", "e">>), Opt(Ch("s")), NotSurface>>),
  Cat(<<NUM, Star(WS), Ch("m"), NotSurfaceOrDigit>>) >>

extractMetersValue(text) ==
  IF text = <<>> THEN Null ELSE FirstNumber(MetersPatterns, 1, text)

MinimumPatterns == <<
  Cat(<<Lit(<<"m", "i", "n", "i", "m", "u", "m">>), Plus(WS), Opt(Cat(<<Lit(<<"d", "e">>), Plus(WS)>>)), NUM, Star(WS), Ch("m"), NotSurface>>),
  Cat(<<Lit(<<"m", "i", "n", "i">>), Opt(Lit(<<"m", "u", "m">>)), Star(WS), Opt(Cls({":", "="})), Star(WS), NUM, Star(WS), Ch("m"), NotSurface>>),
  Cat(<<Lit(<<"a", "u">>), Plus(WS), Lit(<<"m", "o", "i", "n", "s">>), Plus(WS), NUM, Star(WS), Ch("m"), NotSurface>>),
  Cat(<<NUM, Star(WS), Ch("m"), NotSurface, Plus(WS), Opt(Cat(<<Lit(<<"a", "u">>), Plus(WS)>>)), Lit(<<"m", "i", "n", "i", "m", "u", "m">>)>>) >>

extractMinimumMeters(text) ==
  IF text = <<>> THEN Null ELSE FirstNumber(MinimumPatterns, 1, text)

FIXED == Str(<<"F", "I", "X", "E", "D">>)
H_OVER_2 == Str(<<"H", "_", "O", "V", "E", "R", "_", "2">>)
H_OVER_2_MIN == Str(<<"H", "_", "O", "V", "E", "R", "_", "2", "_", "M", "I", "N">>)

HOver2Re == Alt(<<
  Cat(<<Ch("h"), Star(WS), Ch("/"), Star(WS), Ch("2")>>),
  Lit(<<"h", "div", "2">>),
  Cat(<<Lit(<<"h", "a", "u", "t", "e", "u", "r">>), Star(WS), Ch("/"), Star(WS), Ch("2")>>),
  Cat(<<Lit(<<"m", "o", "i", "t", "i", "e_acute">>), Plus(WS), Lit(<<"d", "e">>), Plus(WS), Lit(<<"l", "a">>), Plus(WS), Lit(<<"h", "a", "u", "t", "e", "u", "r">>)>>) >>)
MinimumRe == Alt(<<Lit(<<"m", "i", "n", "i", "m", "u", "m">>), Lit(<<"m", "i", "n", "i">>), Cat(<<Lit(<<"a", "u">>), Plus(WS), Lit(<<"m", "o", "i", "n", "s">>)>>)>>)

\* a classification that looks for a distance before the H/2 idiom
RegleOfFixedFirst(hasHOver2, hasMinimum, fixedMatch) ==
  IF fixedMatch # Null THEN FIXED
  ELSE IF hasHOver2 /\ hasMinimum THEN H_OVER_2_MIN
  ELSE IF hasHOver2 THEN H_OVER_2
  ELSE Null

\* the rule type of what the three tests of detectRegleType find
RegleOf(hasHOver2, hasMinimum, fixedMatch) ==
  IF hasHOver2 /\ hasMinimum THEN H_OVER_2_MIN
  ELSE IF hasHOver2 THEN H_OVER_2
  ELSE IF fixedMatch # Null THEN FIXED
  ELSE Null

detectRegleType(text) ==
  IF text = <<>> THEN Null
  ELSE RegleOf(Test(HOver2Re, toLowerCase(text), TRUE), Test(MinimumRe, toLowerCase(text), TRUE),
               OrElse(extractMinimumMeters(text), extractMetersValue(text)))

DefaultNoteLen == 200

\* cleanNote throws a TypeError on a truthy value that has no trim()
cleanNoteThrows(text) == Truthy(text) /\ text.t # "str"

\* cleaned.length > maxLen ? cleaned.slice(0, maxLen - 3) + "..." : cleaned
Shorten(cleaned, maxLen) ==
  IF Len(cleaned) <= maxLen THEN cleaned ELSE Slice(cleaned, 0, maxLen - 3) \o <<".", ".", ".">>

cleanNote(text, maxLen) ==
  IF ~Truthy(text) THEN Null ELSE Str(Shorten(CollapseSpaces(Trim(text.s)), maxLen))

\* ------------------------------------------------------ post-processing

\* A setback record of the raw ruleset: absent (undefined or null), or an
\* object whose three fields are values (undefined when the key is missing).
NoRecul == [has |-> FALSE, regle |-> Undefined, min_m |-> Undefined, note |-> Undefined]
Recul(regle, min_m, note) == [has |-> TRUE, regle |-> regle, min_m |-> min_m, note |-> note]

postProcessReculThrows(recul) == recul.has /\ cleanNoteThrows(recul.note)

\* a repair that leaves the tag as it is
KeepRecul(regle, min_m, note) == Recul(regle, min_m, note)

\* if (regle === "H_OVER_2" && min_m !== null) regle = "H_OVER_2_MIN"
UpgradeRecul(regle, min_m, note) ==
  Recul(IF regle = H_OVER_2 /\ min_m # Null THEN H_OVER_2_MIN ELSE regle, min_m, note)

\* the setback repaired, its note cleaned
RepairRecul(recul, note) ==
  UpgradeRecul(
    IF recul.regle = Null /\ Truthy(note) THEN detectRegleType(note.s) ELSE recul.regle,
    IF recul.min_m = Null /\ Truthy(note)
    THEN OrElse(extractMinimumMeters(note.s), extractMetersValue(note.s))
    ELSE recul.min_m,
    note)

postProcessRecul(recul) ==
  IF ~recul.has THEN Recul(Null, Null, Null)
  ELSE RepairRecul(recul, cleanNote(recul.note, DefaultNoteLen))

NoImplantation == [has |-> FALSE, autorisee |-> Undefined, note |-> Undefined]
Implantation(autorisee, note) == [has |-> TRUE, autorisee |-> autorisee, note |-> note]

AllowedRe == Alt(<<Cat(<<Lit(<<"a", "u", "t", "o", "r", "i", "s">>), Cls({"e_acute", "e"})>>), Lit(<<"p", "e", "r", "m", "i", "s">>), Lit(<<"p", "o", "s", "s", "i", "b", "l", "e">>), Lit(<<"a", "d", "m", "i", "s">>)>>)
NotAllowedRe == Cat(<<Lit(<<"n", "o", "n">>), Plus(WS), Lit(<<"a", "u", "t", "o", "r", "i", "s">>)>>)
ForbiddenRe == Alt(<<Lit(<<"i", "n", "t", "e", "r", "d", "i", "t">>), NotAllowedRe, Cat(<<Lit(<<"p", "a", "s">>), Plus(WS), Lit(<<"a", "u", "t", "o", "r", "i", "s">>)>>)>>)

postProcessImplantationLimiteThrows(impl) == impl.has /\ cleanNoteThrows(impl.note)

\* what the lowercased note says of building on the boundary
AutoriseeIn(lower, autorisee) ==
  IF Test(AllowedRe, lower, TRUE) /\ ~Test(NotAllowedRe, lower, TRUE) THEN Bool(TRUE)
  ELSE IF Test(ForbiddenRe, lower, TRUE) THEN Bool(FALSE)
  ELSE autorisee

RepairImplantation(impl, note) ==
  Implantation(
    IF impl.autorisee = Null /\ Truthy(note) THEN AutoriseeIn(toLowerCase(note.s), impl.autorisee)
    ELSE impl.autorisee,
    note)

postProcessImplantationLimite(impl) ==
  IF ~impl.has THEN Implantation(Null, Null)
  ELSE RepairImplantation(impl, cleanNote(impl.note, DefaultNoteLen))

Place == Cat(<<Lit(<<"p", "l", "a", "c", "e">>), Opt(Ch("s"))>>)
PlacesParLogementPatterns == <<
  Cat(<<NUM, Star(WS), Place, Star(WS), Opt(Cat(<<Lit(<<"d", "e">>), Plus(WS), Lit(<<"s", "t", "a", "t", "i", "o", "n", "n", "e", "m", "e", "n", "t">>), Plus(WS)>>)), Lit(<<"p", "a", "r">>), Plus(WS), Lit(<<"l", "o", "g", "e", "m", "e", "n", "t">>)>>),
  Cat(<<NUM, Star(WS), Place, Star(WS), Ch("/"), Star(WS), Lit(<<"l", "o", "g", "e", "m", "e", "n", "t">>)>>),
  Cat(<<Lit(<<"p", "a", "r">>), Plus(WS), Lit(<<"l", "o", "g", "e", "m", "e", "n", "t">>), Star(WS), Opt(Cls({":", "="})), Star(WS), NUM, Star(WS), Place>>) >>

extractPlacesParLogement(text) ==
  IF text = <<>> THEN Null ELSE FirstNumber(PlacesParLogementPatterns, 1, text)

SurfaceParPlacePatterns == <<
  Cat(<<NUM, Star(WS), Ch("m"), Opt(Ch("sup2")), Star(WS), Alt(<<Lit(<<"p", "a", "r">>), Ch("/")>>), Star(WS), Lit(<<"p", "l", "a", "c", "e">>)>>),
  Cat(<<Lit(<<"p", "l", "a", "c", "e">>), Star(WS), Opt(Cls({":", "="})), Star(WS), NUM, Star(WS), Lit(<<"m", "sup2">>)>>) >>

extractSurfaceParPlace(text) ==
  IF text = <<>> THEN Null ELSE FirstNumber(SurfaceParPlacePatterns, 1, text)

PlacesPar100m2Patterns == <<
  Cat(<<NUM, Star(WS), Place, Star(WS), Alt(<<Lit(<<"p", "a", "r">>), Lit(<<"p", "o", "u", "r">>), Ch("/")>>), Star(WS), Lit(<<"1", "0", "0">>), Star(WS), Lit(<<"m", "sup2">>)>>),
  Cat(<<Lit(<<"1", "0", "0">>), Star(WS), Lit(<<"m", "sup2">>), Star(WS), Opt(Cls({":", "="})), Star(WS), NUM, Star(WS), Place>>) >>

extractPlacesPar100m2(text) ==
  IF text = <<>> THEN Null ELSE FirstNumber(PlacesPar100m2Patterns, 1, text)

MaxWord == Alt(<<Cat(<<Lit(<<"m", "a", "x", "i", "m", "a", "l">>), Opt(Ch("e"))>>), Cat(<<Lit(<<"m", "a", "x">>), Opt(Ch("."))>>), Lit(<<"m", "a", "x", "i", "m", "u", "m">>)>>)
HauteurMaxPatterns == <<
  Cat(<<Lit(<<"h", "a", "u", "t", "e", "u", "r">>), Plus(WS), MaxWord, Star(WS), Opt(Alt(<<Cat(<<Lit(<<"d", "e">>), Plus(WS)>>), Cls({":", "="})>>)), Star(WS), NUM, Star(WS), Ch("m"), NotSurface>>),
  Cat(<<NUM, Star(WS), Ch("m"), NotSurface, Star(WS), Opt(Cat(<<Lit(<<"d", "e">>), Plus(WS)>>)), Lit(<<"h", "a", "u", "t", "e", "u", "r">>), Plus(WS), Lit(<<"m", "a", "x">>)>>),
  Cat(<<Ch("h"), Opt(Ch(".")), Star(WS), Lit(<<"m", "a", "x">>), Opt(Ch(".")), Star(WS), Opt(Cls({":", "="})), Star(WS), NUM, Star(WS), Ch("m"), NotSurface>>) >>

extractHauteurMax(text) ==
  IF text = <<>> THEN Null ELSE FirstNumber(HauteurMaxPatterns, 1, text)

EmprisePatterns == <<
  Cat(<<Lit(<<"e", "m", "p", "r", "i", "s", "e">>), Plus(WS), Opt(Cat(<<Lit(<<"a", "u">>), Plus(WS)>>)), Lit(<<"s", "o", "l">>), Star(WS), Opt(MaxWord), Star(WS), Opt(Alt(<<Cat(<<Lit(<<"d", "e">>), Plus(WS)>>), Cls({":", "="})>>)), Star(WS), NUM, Star(WS), Ch("%")>>),
  Cat(<<NUM, Star(WS), Ch("%"), Star(WS), Opt(Cat(<<Ch("d"), Ch("'")>>)), Lit(<<"e", "m", "p", "r", "i", "s", "e">>)>>),
  Cat(<<Lit(<<"c", "e">>), Opt(Ch("s")), Star(WS), Opt(Cls({":", "="})), Star(WS), NUM, Star(WS), Ch("%")>>) >>

\* val > 1 ? val / 100 : val, on ten-thousandths
Percent(v) == IF v.t = "num" /\ v.n > Unit THEN Num(v.n \div 100) ELSE v

extractEmpriseSol(text) ==
  IF text = <<>> THEN Null ELSE Percent(FirstNumber(EmprisePatterns, 1, text))

NoStationnement == [has |-> FALSE, places_par_logement |-> Undefined, surface_par_place_m2 |-> Undefined, places_par_100m2 |-> Undefined, note |-> Undefined]
Stationnement(ppl, spp, pp100, note) == [has |-> TRUE, places_par_logement |-> ppl, surface_par_place_m2 |-> spp, places_par_100m2 |-> pp100, note |-> note]

postProcessStationnementThrows(stat) == stat.has /\ cleanNoteThrows(stat.note)

RepairStationnement(stat, note) ==
  Stationnement(
    IF stat.places_par_logement = Null /\ Truthy(note) THEN extractPlacesParLogement(note.s) ELSE stat.places_par_logement,
    IF stat.surface_par_place_m2 = Null /\ Truthy(note) THEN extractSurfaceParPlace(note.s) ELSE stat.surface_par_place_m2,
    IF stat.places_par_100m2 = Null /\ Truthy(note) THEN extractPlacesPar100m2(note.s) ELSE stat.places_par_100m2,
    note)

postProcessStationnement(stat) ==
  IF ~stat.has THEN Stationnement(Null, Null, Null, Null)
  ELSE RepairStationnement(stat, cleanNote(stat.note, DefaultNoteLen))

NoHauteur == [has |-> FALSE, hauteur_max_m |-> Undefined, note |-> Undefined]
Hauteur(h, note) == [has |-> TRUE, hauteur_max_m |-> h, note |-> note]

postProcessHauteurThrows(haut) == haut.has /\ cleanNoteThrows(haut.note)

RepairHauteur(haut, note) ==
  Hauteur(IF haut.hauteur_max_m = Null /\ Truthy(note) THEN extractHauteurMax(note.s) ELSE haut.hauteur_max_m, note)

postProcessHauteur(haut) ==
  IF ~haut.has THEN Hauteur(Null, Null)
  ELSE RepairHauteur(haut, cleanNote(haut.note, DefaultNoteLen))

NoEmprise == [has |-> FALSE, emprise_sol_max |-> Undefined, note |-> Undefined]
Emprise(e, note) == [has |-> TRUE, emprise_sol_max |-> e, note |-> note]

postProcessEmpriseThrows(emp) == emp.has /\ cleanNoteThrows(emp.note)

RepairEmprise(emp, note) ==
  Emprise(Percent(IF emp.emprise_sol_max = Null /\ Truthy(note) THEN extractEmpriseSol(note.s) ELSE emp.emprise_sol_max),
          note)

postProcessEmprise(emp) ==
  IF ~emp.has THEN Emprise(Null, Null)
  ELSE RepairEmprise(emp, cleanNote(emp.note, DefaultNoteLen))

\* The raw ruleset the extraction call returns, parsed: JSON null (obj is
\* FALSE), or an object whose groups may be absent.
NoReculs == [has |-> FALSE, voirie |-> NoRecul, limites_separatives |-> NoRecul, fond_parcelle |-> NoRecul, implantation_en_limite |-> NoImplantation]
Reculs(v, l, f, i) == [has |-> TRUE, voirie |-> v, limites_separatives |-> l, fond_parcelle |-> f, implantation_en_limite |-> i]
RawRuleset(zc, zl, reculs, stat, haut, emp, arts) ==
  [obj |-> TRUE, zone_code |-> zc, zone_libelle |-> zl, reculs |-> reculs, stationnement |-> stat,
   hauteur |-> haut, emprise_sol |-> emp, articles_source |-> arts]
RawJsonNull ==
  [obj |-> FALSE, zone_code |-> Undefined, zone_libelle |-> Undefined, reculs |-> NoReculs,
   stationnement |-> NoStationnement, hauteur |-> NoHauteur, emprise_sol |-> NoEmprise, articles_source |-> [isArray |-> FALSE, items |-> <<>>]]

\* raw.zone_code on null is a TypeError; so is a note that is no string
postProcessZoneRulesetThrows(raw) ==
  \/ ~raw.obj
  \/ postProcessReculThrows(raw.reculs.voirie)
  \/ postProcessReculThrows(raw.reculs.limites_separatives)
  \/ postProcessReculThrows(raw.reculs.fond_parcelle)
  \/ postProcessImplantationLimiteThrows(raw.reculs.implantation_en_limite)
  \/ postProcessStationnementThrows(raw.stationnement)
  \/ postProcessHauteurThrows(raw.hauteur)
  \/ postProcessEmpriseThrows(raw.emprise_sol)

postProcessZoneRuleset(raw, zoneCode, zoneLibelle) ==
  [zone_code |-> OrElse(raw.zone_code, zoneCode),
   zone_libelle |-> OrElse(OrElse(raw.zone_libelle, zoneLibelle), Null),
   reculs |-> [voirie |-> postProcessRecul(raw.reculs.voirie),
               limites_separatives |-> postProcessRecul(raw.reculs.limites_separatives),
               fond_parcelle |-> postProcessRecul(raw.reculs.fond_parcelle),
               implantation_en_limite |-> postProcessImplantationLimite(raw.reculs.implantation_en_limite)],
   stationnement |-> postProcessStationnement(raw.stationnement),
   hauteur |-> postProcessHauteur(raw.hauteur),
   emprise_sol |-> postProcessEmprise(raw.emprise_sol),
   articles_source |-> IF raw.articles_source.isArray THEN raw.articles_source.items ELSE <<>>]

\* ---------------------------------------------------- text normalizer

\* the characters of s at the positions that satisfy Keep, each mapped by Map
Rewrite(s, Keep(_), Map(_)) ==
  LET kept == SelectSeq([i \in 1..Len(s) |-> i], Keep)
  IN [k \in 1..Len(kept) |-> Map(s[kept[k]])]

\* .replace(/\r\n/g, "\n").replace(/\r/g, "\n")
UnixLines(s) ==
  Rewrite(s, LAMBDA i : ~(s[i] = "\r" /\ i < Len(s) /\ s[i + 1] = "\n"),
          LAMBDA c : IF c = "\r" THEN "\n" ELSE c)

\* .replace(/[ \t]+/g, " ")
CollapseBlanks(s) ==
  Rewrite(s, LAMBDA i : ~(s[i] \in {" ", "\t"} /\ i > 1 /\ s[i - 1] \in {" ", "\t"}),
          LAMBDA c : IF c = "\t" THEN " " ELSE c)

\* .replace(/\n{3,}/g, "\n\n")
CollapseNewlines(s) ==
  Rewrite(s, LAMBDA i : ~(s[i] = "\n" /\ i > 2 /\ s[i - 1] = "\n" /\ s[i - 2] = "\n"),
          LAMBDA c : c)

normalizeText(text) == CollapseNewlines(CollapseBlanks(UnixLines(text)))

\* ------------------------------------------------------ zone discovery

\* A pattern with one capture group: what precedes the group, the group,
\* what follows it, and whether it carries the i flag.
ZonePattern(pre, grp, suf, ci) == [pre |-> pre, grp |-> grp, suf |-> suf, ci |-> ci]

UPPER == Cls(UpperSet)
LOWER == Cls(LowerSet)
D19 == Cls(Digits \ {"0"})
UrbanCode == Cat(<<Ch("U"), Rep(UPPER, 1, 2), Opt(LOWER)>>)
FutureCode == Cat(<<D19, Lit(<<"A", "U">>), Opt(LOWER)>>)
ZoneWord == Cat(<<WB, Lit(<<"Z", "O", "N", "E">>), Plus(WS)>>)
Dash == Cls({"-", "endash"})
Empty == Cat(<<>>)

zonePatterns == <<
  ZonePattern(WB, UrbanCode, WB, FALSE),
  ZonePattern(WB, FutureCode, WB, FALSE),
  ZonePattern(ZoneWord, UrbanCode, WB, TRUE),
  ZonePattern(ZoneWord, FutureCode, WB, TRUE),
  ZonePattern(ZoneWord, Cat(<<Ch("A"), Opt(LOWER)>>), WB, TRUE),
  ZonePattern(ZoneWord, Cat(<<Ch("N"), Opt(LOWER)>>), WB, TRUE),
  ZonePattern(WB, Ch("A"), Cat(<<Plus(WS), Dash, Plus(WS), Lit(<<"Z", "o", "n", "e">>), Plus(WS), Lit(<<"a", "g", "r", "i", "c", "o", "l", "e">>)>>), TRUE),
  ZonePattern(WB, Ch("N"), Cat(<<Plus(WS), Dash, Plus(WS), Lit(<<"Z", "o", "n", "e">>), Plus(WS), Lit(<<"n", "a", "t", "u", "r", "e", "l", "l", "e">>)>>), TRUE) >>

\* the first way, in backtracking order, to match pre, group and suf from
\* one of `starts` (the ends of pre)
NoGroup == [index |-> -1, end |-> -1, gs |-> -1, ge |-> -1]
RECURSIVE FirstGroup(_, _, _, _)
\* ges: the ends of the group from Head(starts) that suf can follow
GroupOrNext(p, s, m, starts, ges) ==
  IF ges # <<>>
  THEN [index |-> m, end |-> Head(Ends(p.suf, s, Head(ges), p.ci)), gs |-> Head(starts), ge |-> Head(ges)]
  ELSE FirstGroup(p, s, m, Tail(starts))
FirstGroup(p, s, m, starts) ==
  IF starts = <<>> THEN NoGroup
  ELSE GroupOrNext(p, s, m, starts,
         SelectSeq(Ends(p.grp, s, Head(starts), p.ci), LAMBDA e : Ends(p.suf, s, e, p.ci) # <<>>))

\* the span of match[1] in the match m of the whole pattern
GroupOf(p, s, m) ==
  IF m.index < 0 THEN NoGroup ELSE FirstGroup(p, s, m.index, Ends(p.pre, s, m.index, p.ci))

\* pattern.exec(text) from lastIndex `from`, with the span of match[1]
ExecGroup(p, s, from) == GroupOf(p, s, Exec(Cat(<<p.pre, p.grp, p.suf>>), s, from, p.ci))

\* the while loop over pattern.exec: the codes one pattern collects, in order
RECURSIVE CodesOf(_, _, _)
\* if (code.length >= 1 && code.length <= 5) found.add(code)
Kept(code) == IF Len(code) >= 1 /\ Len(code) <= 5 THEN <<code>> ELSE <<>>
\* match[1].toUpperCase().replace(/\s+/g, "")
CodeOf(text, match) == SelectSeq(toUpperCase(Slice(text, match.gs, match.ge)), LAMBDA c : c \notin Spaces)
CodesAfter(p, text, match) ==
  IF match.index < 0 THEN <<>> ELSE Kept(CodeOf(text, match)) \o CodesOf(p, text, match.end)
CodesOf(p, text, from) == CodesAfter(p, text, ExecGroup(p, text, from))

\* a collection that keeps every code it is given
AppendAll(found, codes) == found \o codes

\* Set.add over a sequence: insertion order, no duplicates
RECURSIVE AddAll(_, _)
AddAll(found, codes) ==
  IF codes = <<>> THEN found
  ELSE AddAll(IF \E k \in 1..Len(found) : found[k] = Head(codes) THEN found ELSE Append(found, Head(codes)),
              Tail(codes))

RECURSIVE FoundBy(_, _, _)
FoundBy(patterns, j, text) ==
  IF j = 0 THEN <<>> ELSE AddAll(FoundBy(patterns, j - 1, text), CodesOf(patterns[j], text, 0))

ValidUrban == Cat(<<BOL, Ch("U"), Rep(UPPER, 1, 2), Opt(UPPER), EOL>>)
ValidFuture == Cat(<<BOL, D19, Lit(<<"A", "U">>), Opt(UPPER), EOL>>)
ValidAN == Cat(<<BOL, Cls({"A", "N"}), Opt(UPPER), EOL>>)

validZone(z) ==
  \/ Test(ValidUrban, z, FALSE)
  \/ Test(ValidFuture, z, FALSE)
  \/ Test(ValidAN, z, FALSE) /\ Len(z) <= 2

MaxRegexZones == 15

discoverZonesRegex(text) ==
  Slice(SelectSeq(FoundBy(zonePatterns, Len(zonePatterns), text), validZone), 0, MaxRegexZones)

\* --------------------------------------------------- article extraction

\* new RegExp(...) throws a SyntaxError on a zone code that opens a group
InvalidPattern(code) == \E i \in 1..Len(code) : code[i] = "("

allZoneCodes == <<<<"U", "A">>, <<"U", "B">>, <<"U", "C">>, <<"U", "D">>, <<"U", "E">>, <<"U", "F">>, <<"U", "G">>, <<"U", "H">>, <<"U", "I">>, <<"U", "J">>, <<"U", "K">>, <<"U", "L">>, <<"U", "M">>, <<"U", "N">>, <<"1", "A", "U">>, <<"2", "A", "U">>>>

NextZoneOffset == 100
ExcerptLead == 200

articlePatterns(articleNum) == <<
  Cat(<<Lit(<<"a", "r", "t", "i", "c", "l", "e">>), Plus(WS), Lit(articleNum), WB>>),
  Cat(<<Lit(<<"a", "r", "t">>), Opt(Ch(".")), Star(WS), Lit(articleNum), WB>>),
  Cat(<<Lit(articleNum), Star(WS), Cls({"-", "endash", ":"}), Star(WS)>>) >>

zoneStartPatterns(zoneCodeLower) == <<
  Cat(<<Lit(<<"z", "o", "n", "e">>), Plus(WS), Lit(zoneCodeLower), WB>>),
  Cat(<<WB, Lit(zoneCodeLower), Plus(WS), Dash>>),
  Cat(<<WB, Lit(zoneCodeLower), WB>>) >>

\* the index of the first match of the first pattern that matches, or -1
RECURSIVE FirstIndex(_, _, _)
IndexOrNext(patterns, j, text, m) ==
  IF m.index >= 0 THEN m.index ELSE FirstIndex(patterns, j + 1, text)
FirstIndex(patterns, j, text) ==
  IF j > Len(patterns) THEN -1 ELSE IndexOrNext(patterns, j, text, Exec(patterns[j], text, 0, TRUE))

RECURSIVE NextZoneEnd(_, _, _, _, _)
NextZoneEnd(textLower, zoneCodeLower, zoneStart, k, zoneEnd) ==
  IF k > Len(allZoneCodes) THEN zoneEnd
  ELSE LET otherZone == allZoneCodes[k]
           nextZonePattern == Cat(<<WB, Lit(<<"z", "o", "n", "e">>), Plus(WS), Lit(otherZone), WB>>)
           match == Exec(nextZonePattern, textLower, zoneStart + NextZoneOffset, TRUE)
       IN NextZoneEnd(textLower, zoneCodeLower, zoneStart, k + 1,
            IF toLowerCase(otherZone) # zoneCodeLower /\ match.index >= 0 /\ match.index < zoneEnd
            THEN match.index ELSE zoneEnd)

findArticleExcerpt(text, articleNum, zoneCode, windowSize) ==
  LET textLower == toLowerCase(text)
      zoneCodeLower == toLowerCase(zoneCode)
      found == FirstIndex(zoneStartPatterns(zoneCodeLower), 1, textLower)
      zoneStart == IF found = -1 THEN 0 ELSE found
      zoneEnd == NextZoneEnd(textLower, zoneCodeLower, zoneStart, 1, Len(text))
      zoneText == Slice(text, zoneStart, zoneEnd)
      articleStart == FirstIndex(articlePatterns(articleNum), 1, toLowerCase(zoneText))
      excerptStart == IF articleStart - ExcerptLead > 0 THEN articleStart - ExcerptLead ELSE 0
  IN IF articleStart >= 0 THEN Slice(zoneText, excerptStart, articleStart + windowSize) ELSE <<>>

FallbackLead == 500
FallbackSpan == 6000
LongWindow == 4000
ShortWindow == 3000
LongExcerpt == 6000
ShortExcerpt == 4000

\* buildZoneExcerpts throws on a zone code that is no string (toLowerCase)
\* or that makes an invalid pattern
buildZoneExcerptsThrows(zoneCode) == zoneCode.t # "str" \/ InvalidPattern(zoneCode.s)

buildZoneExcerpts(fullText, zoneCode) ==
  LET match == Exec(Cat(<<Lit(<<"z", "o", "n", "e">>), Plus(WS), Lit(zoneCode), WB>>), toLowerCase(fullText), 0, TRUE)
      start == IF match.index - FallbackLead > 0 THEN match.index - FallbackLead ELSE 0
      fallback == IF match.index >= 0 THEN Slice(fullText, start, match.index + FallbackSpan) ELSE <<>>
  IN [zone_code |-> zoneCode,
      extrait_article_6 |-> Slice(findArticleExcerpt(fullText, <<"6">>, zoneCode, LongWindow), 0, LongExcerpt),
      extrait_article_7 |-> Slice(findArticleExcerpt(fullText, <<"7">>, zoneCode, LongWindow), 0, LongExcerpt),
      extrait_article_10 |-> Slice(findArticleExcerpt(fullText, <<"1", "0">>, zoneCode, ShortWindow), 0, ShortExcerpt),
      extrait_article_12 |-> Slice(findArticleExcerpt(fullText, <<"1", "2">>, zoneCode, LongWindow), 0, LongExcerpt),
      extrait_article_9 |-> Slice(findArticleExcerpt(fullText, <<"9">>, zoneCode, ShortWindow), 0, ShortExcerpt),
      fallback_context |-> Slice(fallback, 0, ShortExcerpt)]

\* ------------------------------------------------------------ documents

Filler == <<"l", "o", "r", "e", "m", " ", "i", "p", "s", "u", "m", " ", "d", "o", "l", "o", "r", " ", "s", "i", "t", " ", "a", "m", "e", "t", " ">>
\* zone UA and its article 6 at the start, zone UB past the first hundred characters
DocTwoZones == <<"Z", "O", "N", "E", " ", "U", "A", "\r", "\n", "A", "r", "t", "i", "c", "l", "e", " ", "6", " ", "-", " ", "r", "e", "c", "u", "l", " ", "d", "e", " ", "5", " ", "m", "\n">> \o Repeat(Filler, 3) \o <<"\n", "\n", "\n", "\n", "Z", "O", "N", "E", " ", "U", "B", "\n", "A", "r", "t", "i", "c", "l", "e", " ", "7", " ", ":", " ", "H", "/", "2", " ", "m", "i", "n", "i", "m", "u", "m", " ", "3", " ", "m", " ", "\t", " ", "f", "i", "n", "\n">>
\* zone headings and no article heading
DocNoArticles == <<"Z", "O", "N", "E", " ", "U", "A", "\n">> \o Repeat(Filler, 4) \o <<"\n", "Z", "O", "N", "E", " ", "U", "B", "\n">> \o Repeat(Filler, 1)
\* no zone code at all
DocNoZones == <<"P", "l", "a", "n", " ", "l", "o", "c", "a", "l", " ", "d", "'", "u", "r", "b", "a", "n", "i", "s", "m", "e", "\n">> \o Repeat(Filler, 4)
\* sixteen zone codes
DocManyZones == <<"U", "A", " ", "U", "B", " ", "U", "C", " ", "U", "D", " ", "U", "E", " ", "U", "F", " ", "U", "G", " ", "U", "H", " ", "U", "I", " ", "U", "J", " ", "U", "K", " ", "U", "L", " ", "U", "M", " ", "1", "A", "U", " ", "2", "A", "U", " ", "Z", "O", "N", "E", " ", "N", " ", "A", " ", "-", " ", "Z", "o", "n", "e", " ", "a", "g", "r", "i", "c", "o", "l", "e", "\n">> \o Repeat(Filler, 2)
\* under a hundred characters
DocShort == <<"Z", "O", "N", "E", " ", "U", "A", "\n", "A", "r", "t", "i", "c", "l", "e", " ", "6", " ", "-", " ", "5", " ", "m">>

\* ------------------------------------------------------------ the handler

(***************************************************************************)
(* One execution of the handler of POST /api/plu-parse, cut at its awaits  *)
(* and at the stages the source numbers.  The commune fields, the source   *)
(* URL and plu_version_label are copied to the response and read by        *)
(* nothing; the model leaves them out.  The values a caller or the         *)
(* external calls supply are of the shapes the interfaces name: a zone     *)
(* candidate is {zone_code: string, zone_libelle: string or null}.         *)
(***************************************************************************)

VARIABLES
  pc,               \* where the handler stands
  req,              \* the request
  fullText,         \* the normalized text of the document
  discoveredZones,
  warnings,
  meta,
  zonesToProcess,
  zi,               \* the iterations of the zone loop that have ended
  targetZoneCode,   \* the normalized target_zone_code of the request
  zones_rulesets,
  response,         \* what res.json was given, with its status
  discoveryCalls,   \* history: the calls of discoverZonesLLM
  discoveryReplies, \* history: what each of them produced
  excerptCalls,     \* history: the zone codes buildZoneExcerpts was called with
  extractCalls,     \* history: the zone codes extractZoneRulesLLM was called with
  extractReplies,   \* history: what each zone's extraction produced
  input,            \* the argument of a function checked on its own
  output            \* its result

vars == <<pc, req, targetZoneCode, fullText, discoveredZones, warnings, meta, zonesToProcess, zi, zones_rulesets,
          response, discoveryCalls, discoveryReplies, excerptCalls, extractCalls, extractReplies, input, output>>

history == <<discoveryCalls, discoveryReplies, excerptCalls, extractCalls, extractReplies>>

\* the zones of a run whose extraction may produce something unusual: its first ones
MaxOddZones == 3

MinTextLen == 100
MaxLLMZones == 15
MaxZones == 12

Warning(kind, code, n) == [kind |-> kind, code |-> code, n |-> n]
Candidate(code, libelle) == [zone_code |-> code, zone_libelle |-> libelle]

\* --- what the caller and the external calls can supply

Request(authorized, hasParams, target) ==
  [authorized |-> authorized, hasParams |-> hasParams, target_zone_code |-> target]

\* target_zone_code: absent, a code no zone of the documents bears, a code
\* to normalize, a code that makes an invalid pattern, a number
Targets == {Undefined, Str(<<"u", "g">>), Str(<<" ", "Z", "o", "n", "e", " ", "u", "a", " ">>), Str(<<"u", "(">>), Num(5 * Unit)}

Requests ==
  {Request(FALSE, TRUE, Undefined), Request(TRUE, FALSE, Undefined)}
    \cup {Request(TRUE, TRUE, t) : t \in Targets}

\* pdfData.text of the documents a fetch can bring
PdfTexts == {DocTwoZones, DocNoArticles, DocNoZones, DocManyZones, DocShort}

\* what the discovery call replies: it throws, its content does not parse,
\* or it parses to an object whose zones is an array or not
DiscoveryReply(kind, isArray, zones) == [kind |-> kind, zonesIsArray |-> isArray, zones |-> zones]
DiscoveryReplies == {
  DiscoveryReply("throw", FALSE, <<>>),
  DiscoveryReply("unparsable", FALSE, <<>>),
  DiscoveryReply("json", FALSE, <<>>),
  DiscoveryReply("json", TRUE, <<>>),
  DiscoveryReply("json", TRUE, <<Candidate(Str(<<"z", "o", "n", "e", " ", "u", "a">>), Str(<<"C", "e", "n", "t", "r", "e">>)), Candidate(Str(<<"U", "B">>), Null)>>),
  DiscoveryReply("json", TRUE, <<Candidate(Str(<<"z", "o", "n", "e", " ", "u", "a">>), Str(<<"C", "e", "n", "t", "r", "e">>)), Null>>) }

\* rulesets the extraction call replies
NoArticles == [isArray |-> FALSE, items |-> <<>>]
Articles(items) == [isArray |-> TRUE, items |-> items]
RawUsual ==
  RawRuleset(Undefined, Str(<<"C", "e", "n", "t", "r", "e", " ", "v", "i", "l", "l", "e">>),
    Reculs(Recul(Null, Null, Str(<<"H", "/", "2", " ", "m", "i", "n", "i", " ", "3", " ", "m">>)), Recul(FIXED, Num(4 * Unit), Null), NoRecul,
           Implantation(Bool(TRUE), Null)),
    Stationnement(Num(Unit), Null, Null, Null), Hauteur(Num(12 * Unit), Null), Emprise(Num(60 * Unit), Null),
    Articles(<<<<"A", "r", "t", "i", "c", "l", "e", " ", "6">>>>))
RawEmpty ==
  RawRuleset(Undefined, Undefined, NoReculs, NoStationnement, NoHauteur, NoEmprise, NoArticles)
RawEcho ==
  RawRuleset(Str(<<"U", "X">>), Null,
    Reculs(Recul(FIXED, Num(5 * Unit), Str(<<"L", "L", "M", "_", "F", "A", "I", "L", "E", "D">>)), NoRecul, NoRecul, NoImplantation),
    NoStationnement, NoHauteur, NoEmprise, NoArticles)

\* what the extraction call produces: it throws, its content does not
\* parse, or it parses to a value
ExtractReply(kind, raw) == [kind |-> kind, raw |-> raw]
UsualReply == ExtractReply("json", RawUsual)
OddReplies == {
  ExtractReply("throw", RawJsonNull),
  ExtractReply("unparsable", RawJsonNull),
  ExtractReply("json", RawJsonNull),
  ExtractReply("json", RawEmpty),
  ExtractReply("json", RawEcho) }

\* --- the steps

NoMeta ==
  [zones_detected |-> 0, zones_processed |-> 0, used_discovery |-> "none", target_zone_mode |-> FALSE,
   target_zone_code |-> Null, target_zone_found_in_discovery |-> FALSE, warnings |-> <<>>]
InitialMeta == [NoMeta EXCEPT !.used_discovery = "regex"]

NoResponse == [status |-> 0, success |-> FALSE, error |-> "", has_rulesets |-> FALSE, zones_rulesets |-> <<>>, meta |-> NoMeta]
\* res.status(status).json({ success: false, error })
ErrorResponse(status, error) == [NoResponse EXCEPT !.status = status, !.error = error]

Init ==
  /\ pc = "start"
  /\ req \in Requests
  /\ targetZoneCode = Null
  /\ fullText = <<>>
  /\ discoveredZones = <<>>
  /\ warnings = <<>>
  /\ meta = InitialMeta
  /\ zonesToProcess = <<>>
  /\ zi = 0
  /\ zones_rulesets = <<>>
  /\ response = NoResponse
  /\ discoveryCalls = 0
  /\ discoveryReplies = <<>>
  /\ excerptCalls = <<>>
  /\ extractCalls = <<>>
  /\ extractReplies = <<>>
  /\ input = NoRecul
  /\ output = NoRecul

\* !!targetZoneCode
isTargetZoneMode == Truthy(targetZoneCode)

Respond(r) ==
  /\ response' = r
  /\ pc' = "done"

\* steps 1: authorization, parameters, the target zone code
Receive ==
  /\ pc = "start"
  /\ IF ~req.authorized THEN Respond(ErrorResponse(401, "UNAUTHORIZED")) /\ UNCHANGED <<meta, targetZoneCode>>
     ELSE IF ~req.hasParams THEN Respond(ErrorResponse(400, "MISSING_PARAMS")) /\ UNCHANGED <<meta, targetZoneCode>>
     ELSE IF normalizeZoneCodeThrows(req.target_zone_code)
          THEN Respond(ErrorResponse(500, "PLU_PARSER_INTERNAL_ERROR")) /\ UNCHANGED <<meta, targetZoneCode>>
     ELSE /\ targetZoneCode' = normalizeZoneCode(req.target_zone_code)
          /\ meta' = IF Truthy(targetZoneCode')
                     THEN [meta EXCEPT !.target_zone_mode = TRUE, !.target_zone_code = targetZoneCode']
                     ELSE meta
          /\ pc' = "fetch"
          /\ UNCHANGED response
  /\ UNCHANGED <<req, fullText, discoveredZones, warnings, zonesToProcess, zi, zones_rulesets, history, input, output>>

\* step 2: await fetchPdfBuffer
FetchPdf ==
  /\ pc = "fetch"
  /\ \E ok \in BOOLEAN :
       IF ok THEN pc' = "pdf" /\ UNCHANGED response
       ELSE Respond(ErrorResponse(502, "PDF_FETCH_ERROR"))
  /\ UNCHANGED <<req, targetZoneCode, fullText, discoveredZones, warnings, meta, zonesToProcess, zi, zones_rulesets, history, input, output>>

\* step 3: await pdf(pdfBuffer), the text normalized and measured
ExtractText ==
  /\ pc = "pdf"
  /\ \/ Respond(ErrorResponse(500, "PDF_PARSE_ERROR")) /\ UNCHANGED fullText
     \/ \E text \in PdfTexts :
          LET normalized == normalizeText(text)
          IN IF Len(normalized) < MinTextLen
             THEN Respond(ErrorResponse(400, "PDF_EMPTY_OR_UNREADABLE")) /\ UNCHANGED fullText
             ELSE fullText' = normalized /\ pc' = "discover" /\ UNCHANGED response
  /\ UNCHANGED <<req, targetZoneCode, discoveredZones, warnings, meta, zonesToProcess, zi, zones_rulesets, history, input, output>>

\* step 4: the pattern scan, and the call of discoverZonesLLM when it finds nothing
DiscoverRegex ==
  /\ pc = "discover"
  /\ LET regexZones == discoverZonesRegex(fullText)
     IN IF Len(regexZones) > 0
        THEN /\ discoveredZones' = [k \in 1..Len(regexZones) |-> Candidate(Str(regexZones[k]), Null)]
             /\ meta' = [meta EXCEPT !.used_discovery = "regex", !.zones_detected = Len(regexZones)]
             /\ pc' = "select"
             /\ UNCHANGED discoveryCalls
        ELSE /\ discoveryCalls' = discoveryCalls + 1
             /\ pc' = "llm_discovery"
             /\ UNCHANGED <<discoveredZones, meta>>
  /\ UNCHANGED <<req, targetZoneCode, fullText, warnings, zonesToProcess, zi, zones_rulesets, response,
                 discoveryReplies, excerptCalls, extractCalls, extractReplies, input, output>>

\* what discoverZonesLLM returns of a reply that does not throw
discoverZonesLLM(reply) ==
  IF reply.kind = "json" /\ reply.zonesIsArray THEN Slice(reply.zones, 0, MaxLLMZones) ELSE <<>>

\* step 4, after the await of discoverZonesLLM
DiscoverLLM ==
  /\ pc = "llm_discovery"
  /\ \E reply \in DiscoveryReplies :
       /\ discoveryReplies' = Append(discoveryReplies, reply)
       /\ IF reply.kind = "throw"
          THEN /\ warnings' = Append(warnings, Warning("LLM_DISCOVERY_FAILED", Null, 0))
               /\ meta' = [meta EXCEPT !.zones_detected = Len(discoveredZones)]
               /\ UNCHANGED discoveredZones
          ELSE /\ discoveredZones' = discoverZonesLLM(reply)
               /\ meta' = [meta EXCEPT !.used_discovery = "llm", !.zones_detected = Len(discoverZonesLLM(reply))]
               /\ UNCHANGED warnings
  /\ pc' = "select"
  /\ UNCHANGED <<req, targetZoneCode, fullText, zonesToProcess, zi, zones_rulesets, response,
                 discoveryCalls, excerptCalls, extractCalls, extractReplies, input, output>>

\* discoveredZones.find(z => normalizeZoneCode(z.zone_code) === targetZoneCode)
FoundIndexes ==
  {k \in 1..Len(discoveredZones) :
     discoveredZones[k] # Null /\ normalizeZoneCode(discoveredZones[k].zone_code) = targetZoneCode}

\* the callback of find reads z.zone_code of a null entry before any entry matched
findThrows ==
  \E k \in 1..Len(discoveredZones) :
    discoveredZones[k] = Null /\ \A j \in FoundIndexes : j > k

\* the early result with the metadata as it stands, its warnings not filled in
NoZonesFoundBare(m, w) ==
  [status |-> 200, success |-> FALSE, error |-> "NO_ZONES_FOUND", has_rulesets |-> TRUE,
   zones_rulesets |-> <<>>, meta |-> m]

\* res.json({ success: false, error: "NO_ZONES_FOUND", zones_rulesets: [], meta: { ...meta, warnings } })
NoZonesFound(m, w) ==
  [status |-> 200, success |-> FALSE, error |-> "NO_ZONES_FOUND", has_rulesets |-> TRUE,
   zones_rulesets |-> <<>>, meta |-> [m EXCEPT !.warnings = w]]

\* step 5: the zones to process
SelectTargets ==
  /\ pc = "select"
  /\ IF isTargetZoneMode /\ findThrows
     THEN /\ Respond(ErrorResponse(500, "PLU_PARSER_INTERNAL_ERROR"))
          /\ UNCHANGED <<meta, zonesToProcess, warnings>>
     ELSE IF isTargetZoneMode
     THEN /\ IF FoundIndexes # {}
             THEN /\ meta' = [meta EXCEPT !.target_zone_found_in_discovery = TRUE]
                  /\ zonesToProcess' = <<discoveredZones[Min(FoundIndexes)]>>
                  /\ UNCHANGED warnings
             ELSE /\ meta' = [meta EXCEPT !.target_zone_found_in_discovery = FALSE]
                  /\ zonesToProcess' = <<Candidate(targetZoneCode, Null)>>
                  /\ warnings' = Append(warnings, Warning("TARGET_ZONE_NOT_IN_DISCOVERY", targetZoneCode, 0))
          /\ pc' = "loop"
          /\ UNCHANGED response
     ELSE IF Len(discoveredZones) = 0
          THEN /\ Respond(NoZonesFound(meta, warnings))
               /\ UNCHANGED <<meta, zonesToProcess, warnings>>
          ELSE /\ IF Len(discoveredZones) > MaxZones
                  THEN /\ warnings' = Append(warnings, Warning("ZONES_TRUNCATED", Null, Len(discoveredZones)))
                       /\ zonesToProcess' = Slice(discoveredZones, 0, MaxZones)
                  ELSE /\ zonesToProcess' = discoveredZones
                       /\ UNCHANGED warnings
               /\ pc' = "loop"
               /\ UNCHANGED <<meta, response>>
  /\ UNCHANGED <<req, targetZoneCode, fullText, discoveredZones, zi, zones_rulesets, history, input, output>>

LLM_FAILED == Str(<<"L", "L", "M", "_", "F", "A", "I", "L", "E", "D">>)

\* a placeholder that leaves the emprise group out
FailedRulesetBare(zone_code, zone_libelle) ==
  [zone_code |-> zone_code,
   zone_libelle |-> OrElse(zone_libelle, Null),
   reculs |-> [voirie |-> Recul(Null, Null, LLM_FAILED),
               limites_separatives |-> Recul(Null, Null, LLM_FAILED),
               fond_parcelle |-> Recul(Null, Null, LLM_FAILED),
               implantation_en_limite |-> Implantation(Null, LLM_FAILED)],
   stationnement |-> Stationnement(Null, Null, Null, LLM_FAILED),
   hauteur |-> Hauteur(Null, LLM_FAILED),
   articles_source |-> <<>>]

\* the ruleset pushed for a zone whose processing threw
FailedRuleset(zone_code, zone_libelle) ==
  [zone_code |-> zone_code,
   zone_libelle |-> OrElse(zone_libelle, Null),
   reculs |-> [voirie |-> Recul(Null, Null, LLM_FAILED),
               limites_separatives |-> Recul(Null, Null, LLM_FAILED),
               fond_parcelle |-> Recul(Null, Null, LLM_FAILED),
               implantation_en_limite |-> Implantation(Null, LLM_FAILED)],
   stationnement |-> Stationnement(Null, Null, Null, LLM_FAILED),
   hauteur |-> Hauteur(Null, LLM_FAILED),
   emprise_sol |-> Emprise(Null, LLM_FAILED),
   articles_source |-> <<>>]

Entry(zone_code, zone_libelle, ruleset) ==
  [zone_code |-> zone_code, zone_libelle |-> zone_libelle, ruleset |-> ruleset]

\* a catch that pushes the placeholder and records nothing
CatchZoneSilent(zoneInfo) ==
  /\ zones_rulesets' = Append(zones_rulesets,
       Entry(zoneInfo.zone_code, OrElse(zoneInfo.zone_libelle, Null),
             FailedRuleset(zoneInfo.zone_code, zoneInfo.zone_libelle)))
  /\ UNCHANGED <<warnings, meta>>

\* the catch of the zone loop
CatchZone(zoneInfo) ==
  /\ warnings' = Append(warnings, Warning("ZONE_LLM_FAILED", zoneInfo.zone_code, 0))
  /\ zones_rulesets' = Append(zones_rulesets,
       Entry(zoneInfo.zone_code, OrElse(zoneInfo.zone_libelle, Null),
             FailedRuleset(zoneInfo.zone_code, zoneInfo.zone_libelle)))
  /\ UNCHANGED meta


\* the zone the loop is at
zoneInfo == zonesToProcess[zi + 1]

\* the excerpts the extraction call is given
excerpts == buildZoneExcerpts(fullText, zoneInfo.zone_code.s)

\* step 6, to the await of extractZoneRulesLLM: the zone destructured, outside
\* the try of the loop, and the excerpts of the zone
BuildExcerpts ==
  /\ pc = "loop"
  /\ zi < Len(zonesToProcess)
  /\ IF zoneInfo = Null
     THEN /\ Respond(ErrorResponse(500, "PLU_PARSER_INTERNAL_ERROR"))
          /\ UNCHANGED <<warnings, meta, zones_rulesets, zi, excerptCalls, extractCalls, extractReplies>>
     ELSE IF buildZoneExcerptsThrows(zoneInfo.zone_code)
     THEN /\ excerptCalls' = Append(excerptCalls, zoneInfo.zone_code)
          /\ CatchZone(zoneInfo)
          /\ extractReplies' = Append(extractReplies, ExtractReply("none", RawJsonNull))
          /\ zi' = zi + 1
          /\ UNCHANGED <<pc, response, extractCalls>>
     ELSE /\ excerptCalls' = Append(excerptCalls, zoneInfo.zone_code)
          /\ extractCalls' = Append(extractCalls, zoneInfo.zone_code)
          /\ pc' = "extract"
          /\ UNCHANGED <<warnings, meta, zones_rulesets, zi, response, extractReplies>>
  /\ UNCHANGED <<req, targetZoneCode, fullText, discoveredZones, zonesToProcess,
                 discoveryCalls, discoveryReplies, input, output>>

\* the zone's extraction throws: the call, JSON.parse or the repair
ExtractionThrows(reply) == reply.kind # "json" \/ postProcessZoneRulesetThrows(reply.raw)

\* a push that does not count the zone
PushZoneUncounted(zone_code, ruleset) ==
  /\ zones_rulesets' = Append(zones_rulesets, Entry(zone_code, ruleset.zone_libelle, ruleset))
  /\ UNCHANGED <<warnings, meta>>

\* zonesRulesets.push({ zone_code, zone_libelle: ruleset.zone_libelle, ruleset })
PushZone(zone_code, ruleset) ==
  /\ zones_rulesets' = Append(zones_rulesets, Entry(zone_code, ruleset.zone_libelle, ruleset))
  /\ meta' = [meta EXCEPT !.zones_processed = @ + 1]
  /\ UNCHANGED warnings

\* step 6, after the await: the reply parsed, repaired and pushed, or caught
ExtractZone ==
  /\ pc = "extract"
  /\ \E reply \in {UsualReply} \cup {r \in OddReplies : zi < MaxOddZones} :
       /\ extractReplies' = Append(extractReplies, reply)
       /\ IF ExtractionThrows(reply)
          THEN CatchZone(zoneInfo)
          ELSE PushZone(zoneInfo.zone_code, postProcessZoneRuleset(reply.raw, zoneInfo.zone_code, zoneInfo.zone_libelle))
  /\ zi' = zi + 1
  /\ pc' = "loop"
  /\ UNCHANGED <<req, targetZoneCode, fullText, discoveredZones, zonesToProcess, response,
                 discoveryCalls, discoveryReplies, excerptCalls, extractCalls, input, output>>

\* String.prototype.includes
Includes(s, sub) == \E i \in 0..(Len(s) - Len(sub)) : Slice(s, i, i + Len(sub)) = sub

\* note?.includes("LLM_FAILED"), taken for true
CarriesSentinel(note) == note.t = "str" /\ Includes(note.s, LLM_FAILED.s)

\* a health test that reads the note of the height group
HealthyByHauteur(z) == ~CarriesSentinel(z.ruleset.hauteur.note)

\* z.ruleset && !z.ruleset.reculs?.voirie?.note?.includes("LLM_FAILED")
Healthy(z) == ~CarriesSentinel(z.ruleset.reculs.voirie.note)

\* step 7: the result
Finish ==
  /\ pc = "loop"
  /\ zi = Len(zonesToProcess)
  /\ meta' = [meta EXCEPT !.warnings = warnings]
  /\ Respond([status |-> 200, success |-> \E k \in 1..Len(zones_rulesets) : Healthy(zones_rulesets[k]),
              error |-> "", has_rulesets |-> TRUE, zones_rulesets |-> zones_rulesets,
              meta |-> [meta EXCEPT !.warnings = warnings]])
  /\ UNCHANGED <<req, targetZoneCode, fullText, discoveredZones, warnings, zonesToProcess, zi, zones_rulesets, history, input, output>>

Next ==
  \/ Receive
  \/ FetchPdf
  \/ ExtractText
  \/ DiscoverRegex
  \/ DiscoverLLM
  \/ SelectTargets
  \/ BuildExcerpts
  \/ ExtractZone
  \/ Finish

Spec == Init /\ [][Next]_vars

\* ------------------------------------------- the setback repair on its own

\* raw setback records: regle of the four tags, min_m null or a number,
\* note null or a text; and the record that is absent
ReculNotes == {
  Null,
  Str(<<"r", "e", "c", "u", "l", " ", "o", "b", "l", "i", "g", "a", "t", "o", "i", "r", "e">>),
  Str(<<"H", "/", "2">>),
  Str(<<"H", "/", "2", " ", "m", "i", "n", "i", "m", "u", "m", " ", "3", " ", "m">>),
  Str(<<"r", "e", "c", "u", "l", " ", "d", "e", " ", "5", " ", "m">>),
  Str(<<" ", " ", "h", "a", "u", "t", "e", "u", "r", " ", "/", " ", "2", " ", ",", "\n", " ", "a", "u", " ", "m", "o", "i", "n", "s", " ", "4", ",", "5", " ", "m", " ", " ">>),
  Str(<<"1", "2", " ", "m", "sup2", " ", "o", "u", " ", "1", ",", "5", " ", "m">>) }
RawReculs ==
  {NoRecul} \cup
  {Recul(regle, min_m, note) :
     regle \in {FIXED, H_OVER_2, H_OVER_2_MIN, Null},
     min_m \in {Null, Num(0), Num(5 * Unit)},
     note \in ReculNotes}

InitRecul ==
  /\ pc = "raw"
  /\ input \in RawReculs
  /\ output = NoRecul
  /\ req = Request(TRUE, TRUE, Undefined)
  /\ targetZoneCode = Null
  /\ fullText = <<>>
  /\ discoveredZones = <<>>
  /\ warnings = <<>>
  /\ meta = InitialMeta
  /\ zonesToProcess = <<>>
  /\ zi = 0
  /\ zones_rulesets = <<>>
  /\ response = NoResponse
  /\ discoveryCalls = 0
  /\ discoveryReplies = <<>>
  /\ excerptCalls = <<>>
  /\ extractCalls = <<>>
  /\ extractReplies = <<>>

\* postProcessRecul(raw.reculs?.voirie), and of the other two setbacks
ApplyRecul ==
  /\ pc = "raw"
  /\ output' = postProcessRecul(input)
  /\ pc' = "repaired"
  /\ UNCHANGED <<req, targetZoneCode, fullText, discoveredZones, warnings, meta, zonesToProcess, zi,
                 zones_rulesets, response, history, input>>

NextRecul == ApplyRecul

SpecRecul == InitRecul /\ [][NextRecul]_vars

\* ----------------------------------------- the footprint repair on its own

\* the handler at rest, while a function is applied on its own
HandlerIdle ==
  /\ req = Request(TRUE, TRUE, Undefined)
  /\ targetZoneCode = Null
  /\ fullText = <<>>
  /\ discoveredZones = <<>>
  /\ warnings = <<>>
  /\ meta = InitialMeta
  /\ zonesToProcess = <<>>
  /\ zi = 0
  /\ zones_rulesets = <<>>
  /\ response = NoResponse
  /\ discoveryCalls = 0
  /\ discoveryReplies = <<>>
  /\ excerptCalls = <<>>
  /\ extractCalls = <<>>
  /\ extractReplies = <<>>

\* raw footprint records: emprise_sol_max null, absent, a fraction or a
\* percentage, note null or a text; and the record that is absent
EmpriseNotes == {
  Null,
  Str(<<"e", "m", "p", "r", "i", "s", "e", " ", "l", "i", "b", "r", "e">>),
  Str(<<"e", "m", "p", "r", "i", "s", "e", " ", "a", "u", " ", "s", "o", "l", " ", "m", "a", "x", "i", "m", "a", "l", "e", " ", "d", "e", " ", "4", "0", " ", "%">>),
  Str(<<"e", "m", "p", "r", "i", "s", "e", " ", "a", "u", " ", "s", "o", "l", " ", ":", " ", "1", "5", "0", " ", "%">>),
  Str(<<"C", "E", "S", " ", "=", " ", "0", ",", "5", " ", "%">>),
  Str(<<"6", "0", "%", " ", "d", "'", "e", "m", "p", "r", "i", "s", "e">>),
  Str(<<"C", "E", "S", " ", "1", " ", "%">>) }
RawEmprises ==
  {NoEmprise} \cup
  {Emprise(e, note) :
     e \in {Null, Undefined, Num(0), Num(4 * (Unit \div 10)), Num(Unit), Num(40 * Unit), Num(100 * Unit),
            Num(150 * Unit), Num(0 - 5 * Unit)},
     note \in EmpriseNotes}

InitEmprise ==
  /\ pc = "raw"
  /\ input \in RawEmprises
  /\ output = NoEmprise
  /\ HandlerIdle

\* postProcessEmprise(raw.emprise_sol)
ApplyEmprise ==
  /\ pc = "raw"
  /\ output' = postProcessEmprise(input)
  /\ pc' = "repaired"
  /\ UNCHANGED <<req, targetZoneCode, fullText, discoveredZones, warnings, meta, zonesToProcess, zi,
                 zones_rulesets, response, history, input>>

SpecEmprise == InitEmprise /\ [][ApplyEmprise]_vars

\* ------------------------------------------- the ruleset repair on its own

\* parsed replies of the extraction call: JSON null, and objects whose groups
\* are absent, empty, all null, or hold a note that is no string
RawRulesets ==
  {RawJsonNull} \cup
  {RawRuleset(Undefined, Undefined, Reculs(voirie, NoRecul, Recul(Null, Null, Null), NoImplantation),
              stat, haut, emp, NoArticles) :
     voirie \in {NoRecul, Recul(Undefined, Undefined, Undefined), Recul(Null, Null, Null),
                 Recul(Null, Null, Num(5 * Unit)), Recul(Null, Null, Str(<<"H", "/", "2", " ", "m", "i", "n", "i", " ", "3", " ", "m">>))},
     stat \in {NoStationnement, Stationnement(Undefined, Undefined, Undefined, Undefined),
               Stationnement(Null, Null, Null, Bool(TRUE))},
     haut \in {NoHauteur, Hauteur(Null, Str(<<"h", "a", "u", "t", "e", "u", "r", " ", "m", "a", "x", "i", "m", "a", "l", "e", " ", ":", " ", "1", "2", " ", "m">>))},
     emp \in {NoEmprise, Emprise(Undefined, Undefined)}}

\* the outcome of a call: a TypeError, or the value returned
Thrown == [thrown |-> TRUE, value |-> Null]
Returned(value) == [thrown |-> FALSE, value |-> value]

InitRuleset ==
  /\ pc = "raw"
  /\ input \in RawRulesets
  /\ output = Returned(Null)
  /\ HandlerIdle

\* postProcessZoneRuleset(rawRuleset, zone_code, zone_libelle)
ApplyRuleset ==
  /\ pc = "raw"
  /\ output' = IF postProcessZoneRulesetThrows(input) THEN Thrown
               ELSE Returned(postProcessZoneRuleset(input, Str(<<"U", "A">>), Null))
  /\ pc' = "repaired"
  /\ UNCHANGED <<req, targetZoneCode, fullText, discoveredZones, warnings, meta, zonesToProcess, zi,
                 zones_rulesets, response, history, input>>

SpecRuleset == InitRuleset /\ [][ApplyRuleset]_vars

\* --------------------------------------- the rule classifier on its own

\* the parts a setback note is made of: an H/2 idiom, a minimum qualifier,
\* a quantity that is a linear distance or is not; each may be missing
Idioms == {<<>>, <<"H", "/", "2">>, <<"h", " ", "/", " ", "2">>, <<"h", "a", "u", "t", "e", "u", "r", "/", "2">>, <<"m", "o", "i", "t", "i", "e_acute", " ", "d", "e", " ", "l", "a", " ", "h", "a", "u", "t", "e", "u", "r">>, <<"H", "div", "2">>}
Qualifiers == {<<>>, <<"m", "i", "n", "i", "m", "u", "m">>, <<"m", "i", "n", "i">>, <<"a", "u", " ", "m", "o", "i", "n", "s">>}
Quantities == {[text |-> <<>>, linear |-> FALSE], [text |-> <<"3", " ", "m">>, linear |-> TRUE],
               [text |-> <<"4", ",", "5", " ", "m", "e_grave", "t", "r", "e", "s">>, linear |-> TRUE], [text |-> <<"1", "2", " ", "m", "sup2">>, linear |-> FALSE]}

Join(a, b) == IF a = <<>> THEN b ELSE IF b = <<>> THEN a ELSE a \o <<" ">> \o b

\* a note with what it holds
Note(text, idiom, qualifier, distance) ==
  [text |-> text, idiom |-> idiom, qualifier |-> qualifier, distance |-> distance]

Scenario3 == <<"h", "a", "u", "t", "e", "u", "r", " ", "m", "i", "n", "i", "m", "u", "m", " ", "d", "e", " ", "3", " ", "m", ",", " ", "s", "i", "n", "o", "n", " ", "H", "/", "2">>

\* the notes: the parts in two orders, and the note of the third scenario
Notes ==
  {Note(Join(i, Join(q, d.text)), i # <<>>, q # <<>>, d.linear) : i \in Idioms, q \in Qualifiers, d \in Quantities}
  \cup {Note(Join(q, Join(d.text, i)), i # <<>>, q # <<>>, d.linear) : i \in Idioms, q \in Qualifiers, d \in Quantities}
  \cup {Note(Scenario3, TRUE, TRUE, TRUE)}

InitRegle ==
  /\ pc = "raw"
  /\ input \in Notes
  /\ output = [regle |-> Null, min_m |-> Null]
  /\ HandlerIdle

\* detectRegleType(note) and extractMinimumMeters(note)
ApplyRegle ==
  /\ pc = "raw"
  /\ output' = [regle |-> detectRegleType(input.text), min_m |-> extractMinimumMeters(input.text)]
  /\ pc' = "classified"
  /\ UNCHANGED <<req, targetZoneCode, fullText, discoveredZones, warnings, meta, zonesToProcess, zi,
                 zones_rulesets, response, history, input>>

SpecRegle == InitRegle /\ [][ApplyRegle]_vars

\* ------------------------------------------- the pattern scan on its own

\* texts to scan: two codes found by different sub-patterns, seventeen
\* codes, codes written in lower case, no code
ScanTexts == {
  <<"Z", "o", "n", "e", " ", "1", "A", "U", " ", "p", "u", "i", "s", " ", "U", "A", " ", "e", "t", " ", "U", "B">>,
  <<"U", "A", " ", "U", "B", " ", "U", "C", " ", "U", "D", " ", "U", "E", " ", "U", "F", " ", "U", "G", " ", "U", "H", " ", "U", "I", " ", "U", "J", " ", "U", "K", " ", "U", "L", " ", "U", "M", " ", "1", "A", "U", " ", "2", "A", "U", " ", "Z", "O", "N", "E", " ", "N", " ", "A", " ", "-", " ", "Z", "o", "n", "e", " ", "a", "g", "r", "i", "c", "o", "l", "e">>,
  <<"z", "o", "n", "e", " ", "u", "a", ",", " ", "Z", "O", "N", "E", " ", "N", "h", ",", " ", "N", " ", "-", " ", "Z", "o", "n", "e", " ", "n", "a", "t", "u", "r", "e", "l", "l", "e", ",", " ", "Z", "O", "N", "E", " ", "U", "A">>,
  <<"P", "l", "a", "n", " ", "l", "o", "c", "a", "l", " ", "d", "'", "u", "r", "b", "a", "n", "i", "s", "m", "e">> }

\* the orders the sub-patterns are taken in: the order of the code, and that
\* order with two sub-patterns exchanged
CodeOrder == [k \in 1..Len(zonePatterns) |-> k]
Orders ==
  {[k \in 1..Len(zonePatterns) |-> IF k = a THEN b ELSE IF k = b THEN a ELSE k] :
     a \in 1..Len(zonePatterns), b \in 1..Len(zonePatterns)}

\* the body of discoverZonesRegex over the sub-patterns in a given order
scanIn(order, text) ==
  Slice(SelectSeq(FoundBy([k \in 1..Len(order) |-> zonePatterns[order[k]]], Len(order), text), validZone),
        0, MaxRegexZones)

InitScan ==
  /\ pc = "raw"
  /\ input \in [text : ScanTexts, order : Orders]
  /\ output = [codes |-> <<>>, reordered |-> <<>>]
  /\ HandlerIdle

\* discoverZonesRegex(text), and the same scan with the sub-patterns reordered
ApplyScan ==
  /\ pc = "raw"
  /\ output' = [codes |-> discoverZonesRegex(input.text), reordered |-> scanIn(input.order, input.text)]
  /\ pc' = "scanned"
  /\ UNCHANGED <<req, targetZoneCode, fullText, discoveredZones, warnings, meta, zonesToProcess, zi,
                 zones_rulesets, response, history, input>>

SpecScan == InitScan /\ [][ApplyScan]_vars

\* ------------------------------------------------------------ properties

\* the run went through the zone loop and returned its result
Processed == pc = "done" /\ response.status = 200 /\ response.error = ""

\* the processing of the k-th zone threw: the excerpts, the call, JSON.parse or the repair
FailedAt(k) == ExtractionThrows(extractReplies[k])

\* the codes of the zones among the first n whose processing threw, in order
RECURSIVE FailedCodes(_)
FailedCodes(n) ==
  IF n = 0 THEN <<>>
  ELSE FailedCodes(n - 1) \o (IF FailedAt(n) THEN <<zonesToProcess[n].zone_code>> ELSE <<>>)

ZoneWarnings == SelectSeq(warnings, LAMBDA w : w.kind = "ZONE_LLM_FAILED")

\* every number and tag null, the sentinel in the note of each of the seven groups
IsPlaceholder(rs) ==
  /\ \A g \in {"voirie", "limites_separatives", "fond_parcelle"} :
       rs.reculs[g].regle = Null /\ rs.reculs[g].min_m = Null /\ rs.reculs[g].note = LLM_FAILED
  /\ rs.reculs.implantation_en_limite.autorisee = Null
  /\ rs.reculs.implantation_en_limite.note = LLM_FAILED
  /\ rs.stationnement.places_par_logement = Null
  /\ rs.stationnement.surface_par_place_m2 = Null
  /\ rs.stationnement.places_par_100m2 = Null
  /\ rs.stationnement.note = LLM_FAILED
  /\ rs.hauteur.hauteur_max_m = Null /\ rs.hauteur.note = LLM_FAILED
  /\ rs.emprise_sol.emprise_sol_max = Null /\ rs.emprise_sol.note = LLM_FAILED

\* C1: at every moment of the zone loop and in the result, every zone whose
\* extraction failed has the placeholder ruleset (all numbers and tags null,
\* the note LLM_FAILED in each of the seven groups) and its warning
\* ZONE_<code>_LLM_FAILED, one per failing zone and in order; every other
\* zone has the ruleset repaired from its own reply, whatever the other
\* zones' extractions did; and the result holds all the selected zones.
C1_FailureIsolation ==
  /\ Len(extractReplies) = Len(zones_rulesets)
  /\ \A k \in 1..Len(zones_rulesets) :
       IF FailedAt(k)
       THEN /\ IsPlaceholder(zones_rulesets[k].ruleset)
            /\ zones_rulesets[k].ruleset.zone_code = zonesToProcess[k].zone_code
       ELSE zones_rulesets[k].ruleset =
              postProcessZoneRuleset(extractReplies[k].raw, zonesToProcess[k].zone_code,
                                     zonesToProcess[k].zone_libelle)
  /\ [k \in 1..Len(ZoneWarnings) |-> ZoneWarnings[k].code] = FailedCodes(Len(zones_rulesets))
  /\ Processed => response.zones_rulesets = zones_rulesets /\ Len(zones_rulesets) = Len(zonesToProcess)

\* a run of at least three zones whose second extraction threw, between two that did not fail
C1_Witness ==
  /\ Processed
  /\ Len(zones_rulesets) >= 3
  /\ extractReplies[1] = UsualReply
  /\ extractReplies[2].kind = "throw"
  /\ extractReplies[3] = UsualReply

\* C2: the result of every run that entered the zone loop holds one entry
\* per selected zone, in the order of the selection, whether the zone's
\* extraction succeeded or failed.
C2_OneEntryPerZoneInOrder ==
  pc = "done" /\ zonesToProcess # <<>> =>
    /\ response.has_rulesets
    /\ Len(response.zones_rulesets) = Len(zonesToProcess)
    /\ \A k \in 1..Len(response.zones_rulesets) :
         response.zones_rulesets[k].zone_code = zonesToProcess[k].zone_code

\* C3: a standard-mode run whose discovery ends with no zone never enters
\* the zone loop: it returns NO_ZONES_FOUND with an empty zones_rulesets and
\* the warnings collected so far, and neither builds excerpts nor calls the
\* extraction.
C3_NoZonesFound ==
  /\ pc \in {"loop", "extract"} => isTargetZoneMode \/ discoveredZones # <<>>
  /\ pc = "done" /\ ~isTargetZoneMode /\ discoveryReplies # <<>> /\ discoveredZones = <<>> =>
       /\ response.status = 200
       /\ response.error = "NO_ZONES_FOUND"
       /\ ~response.success
       /\ response.zones_rulesets = <<>>
       /\ response.meta.warnings = warnings
       /\ discoveryReplies[1].kind = "throw" =>
            \E k \in 1..Len(response.meta.warnings) : response.meta.warnings[k].kind = "LLM_DISCOVERY_FAILED"
       /\ excerptCalls = <<>>
       /\ extractCalls = <<>>

\* the early result of a run whose discovery call threw
C3_Witness ==
  /\ pc = "done"
  /\ response.error = "NO_ZONES_FOUND"
  /\ discoveryReplies # <<>>
  /\ discoveryReplies[1].kind = "throw"
  /\ response.meta.warnings # <<>>

TargetWarned == \E k \in 1..Len(warnings) : warnings[k].kind = "TARGET_ZONE_NOT_IN_DISCOVERY"

\* C4: in target mode one zone is selected: the first discovered candidate
\* whose normalized code is the target, with the found flag and no warning;
\* or else the bare candidate, with the warning, and the extraction is
\* called for it all the same.
C4_SingleTarget ==
  isTargetZoneMode /\ (pc \in {"loop", "extract"} \/ Processed) =>
    /\ Len(zonesToProcess) = 1
    /\ IF FoundIndexes # {}
       THEN /\ zonesToProcess[1] = discoveredZones[Min(FoundIndexes)]
            /\ meta.target_zone_found_in_discovery
            /\ ~TargetWarned
       ELSE /\ zonesToProcess[1] = Candidate(targetZoneCode, Null)
            /\ ~meta.target_zone_found_in_discovery
            /\ \E k \in 1..Len(warnings) : warnings[k] = Warning("TARGET_ZONE_NOT_IN_DISCOVERY", targetZoneCode, 0)
            /\ Processed => extractCalls = <<targetZoneCode>>

\* C5: the excerpts given to the extraction of a target zone that discovery
\* did not find and whose code the document does not contain are empty in
\* each of the six slots.
C5_EmptyExcerpts ==
  /\ pc = "extract"
  /\ isTargetZoneMode
  /\ ~meta.target_zone_found_in_discovery
  /\ ~Includes(toLowerCase(fullText), toLowerCase(targetZoneCode.s))
  => /\ excerpts.extrait_article_6 = <<>>
     /\ excerpts.extrait_article_7 = <<>>
     /\ excerpts.extrait_article_9 = <<>>
     /\ excerpts.extrait_article_10 = <<>>
     /\ excerpts.extrait_article_12 = <<>>
     /\ excerpts.fallback_context = <<>>

\* C6: the discovery call is made exactly when the pattern scan finds no
\* code, and the used_discovery of a result is "llm" exactly when the call
\* was made, "regex" exactly when it was not.
C6_DiscoveryTier ==
  /\ pc = "select" => (discoveryCalls > 0 <=> discoverZonesRegex(fullText) = <<>>)
  /\ pc = "done" /\ response.status = 200 =>
       /\ response.meta.used_discovery = "llm" <=> discoveryCalls > 0
       /\ response.meta.used_discovery = "regex" <=> discoveryCalls = 0

\* C7: after a discovery call that threw or whose content did not parse, the
\* zone list is empty and the warnings hold a discovery-failure warning.
C7_DegradedDiscoveryWarned ==
  discoveryReplies # <<>> /\ discoveryReplies[1].kind \in {"throw", "unparsable"} =>
    /\ discoveredZones = <<>>
    /\ \E k \in 1..Len(warnings) : warnings[k].kind = "LLM_DISCOVERY_FAILED"

\* the errors that end a run before discovery
Rejected == {"UNAUTHORIZED", "MISSING_PARAMS", "PDF_FETCH_ERROR", "PDF_PARSE_ERROR", "PDF_EMPTY_OR_UNREADABLE"}

\* the error of the outer catch
INTERNAL == "PLU_PARSER_INTERNAL_ERROR"

\* every group of the ruleset is there with every field
Complete(rs) ==
  /\ DOMAIN rs = {"zone_code", "zone_libelle", "reculs", "stationnement", "hauteur", "emprise_sol", "articles_source"}
  /\ DOMAIN rs.reculs = {"voirie", "limites_separatives", "fond_parcelle", "implantation_en_limite"}
  /\ \A g \in {"voirie", "limites_separatives", "fond_parcelle"} :
       rs.reculs[g].has /\ {"regle", "min_m", "note"} \subseteq DOMAIN rs.reculs[g]
  /\ rs.reculs.implantation_en_limite.has
  /\ {"autorisee", "note"} \subseteq DOMAIN rs.reculs.implantation_en_limite
  /\ rs.stationnement.has
  /\ {"places_par_logement", "surface_par_place_m2", "places_par_100m2", "note"} \subseteq DOMAIN rs.stationnement
  /\ rs.hauteur.has /\ {"hauteur_max_m", "note"} \subseteq DOMAIN rs.hauteur
  /\ rs.emprise_sol.has /\ {"emprise_sol_max", "note"} \subseteq DOMAIN rs.emprise_sol

C9_SuccessFlag ==
  Processed =>
    /\ response.success <=>
         \E k \in 1..Len(response.zones_rulesets) :
           LET note == response.zones_rulesets[k].ruleset.reculs.voirie.note
           IN note = Null \/ ~CarriesSentinel(note)
    /\ (\A k \in 1..Len(response.zones_rulesets) : FailedAt(k)) => ~response.success
    /\ (\E k \in 1..Len(response.zones_rulesets) :
          ~FailedAt(k) /\ ~CarriesSentinel(response.zones_rulesets[k].ruleset.reculs.voirie.note))
         => response.success

\* a success over three zones: one failed, one whose reply carried the
\* sentinel in its voirie note, one with a null voirie note
C9_Witness ==
  /\ Processed
  /\ response.success
  /\ Len(response.zones_rulesets) >= 3
  /\ extractReplies[1].kind = "throw"
  /\ extractReplies[2] = ExtractReply("json", RawEcho)
  /\ extractReplies[3] = ExtractReply("json", RawEmpty)
  /\ response.zones_rulesets[3].ruleset.reculs.voirie.note = Null

\* C10, as amended: a repaired setback whose min_m is not null never has the
\* tag H_OVER_2: its tag is H_OVER_2_MIN, FIXED or null.
C10_TagConsistency ==
  pc = "repaired" /\ output.min_m # Null =>
    output.regle # H_OVER_2 /\ output.regle \in {H_OVER_2_MIN, FIXED, Null}

\* a setback tagged H_OVER_2 without min_m, whose note gave the minimum: the tag was upgraded
C10_Witness ==
  /\ pc = "repaired"
  /\ input.has
  /\ input.regle = H_OVER_2
  /\ input.min_m = Null
  /\ output.min_m = Num(3 * Unit)
  /\ output.regle = H_OVER_2_MIN

\* C10, as stated: a repaired setback whose min_m is not null is tagged
\* H_OVER_2_MIN or FIXED.
C10_MinOrFixed ==
  pc = "repaired" /\ output.min_m # Null => output.regle \in {H_OVER_2_MIN, FIXED}

\* the raw footprint value of a record: the one supplied, or else the number
\* the footprint patterns capture in its note
RawFootprint ==
  IF ~input.has THEN Null
  ELSE IF input.emprise_sol_max # Null THEN input.emprise_sol_max
  ELSE IF Truthy(cleanNote(input.note, DefaultNoteLen))
       THEN FirstNumber(EmprisePatterns, 1, cleanNote(input.note, DefaultNoteLen).s)
       ELSE Null

\* C11: the footprint stored by the repair lies between 0 and 1: a raw value
\* above 1 is stored divided by 100, once, and a raw value of at most 1 is
\* stored as it is.
C11_FootprintNormalized ==
  pc = "repaired" /\ RawFootprint.t = "num" =>
    /\ output.emprise_sol_max.t = "num"
    /\ 0 <= output.emprise_sol_max.n
    /\ output.emprise_sol_max.n <= Unit
    /\ output.emprise_sol_max.n =
         IF RawFootprint.n > Unit THEN RawFootprint.n \div 100 ELSE RawFootprint.n

\* no field of the seven groups is left undefined
FieldsResolved(rs) ==
  /\ \A g \in {"voirie", "limites_separatives", "fond_parcelle"} :
       Undefined \notin {rs.reculs[g].regle, rs.reculs[g].min_m, rs.reculs[g].note}
  /\ Undefined \notin {rs.reculs.implantation_en_limite.autorisee, rs.reculs.implantation_en_limite.note}
  /\ Undefined \notin {rs.stationnement.places_par_logement, rs.stationnement.surface_par_place_m2,
                       rs.stationnement.places_par_100m2, rs.stationnement.note}
  /\ Undefined \notin {rs.hauteur.hauteur_max_m, rs.hauteur.note}
  /\ Undefined \notin {rs.emprise_sol.emprise_sol_max, rs.emprise_sol.note}

\* C12: the repair of any parsed reply returns, never throws, and the ruleset
\* it returns holds each of the seven groups with each of its fields, null
\* where the field could not be resolved.
C12_RepairTotal ==
  pc = "repaired" =>
    /\ ~output.thrown
    /\ Complete(output.value)
    /\ FieldsResolved(output.value)

\* C13: the rule type of a note is H_OVER_2_MIN when it holds an H/2 idiom
\* and a minimum qualifier, H_OVER_2 when it holds the idiom without the
\* qualifier, FIXED when it holds no idiom and a linear distance, null
\* otherwise; never FIXED with an idiom; and the note of the third scenario
\* is H_OVER_2_MIN with the minimum 3.
C13_RegleTable ==
  pc = "classified" =>
    /\ output.regle =
         IF input.idiom /\ input.qualifier THEN H_OVER_2_MIN
         ELSE IF input.idiom THEN H_OVER_2
         ELSE IF input.distance THEN FIXED
         ELSE Null
    /\ input.idiom => output.regle # FIXED
    /\ input.text = Scenario3 => output.regle = H_OVER_2_MIN /\ output.min_m = Num(3 * Unit)

\* the note of the third scenario, classified
C13_Witness ==
  /\ pc = "classified"
  /\ input.text = Scenario3
  /\ output.regle = H_OVER_2_MIN
  /\ output.min_m = Num(3 * Unit)

\* the codes of a list
Codes(list) == {list[k] : k \in 1..Len(list)}

\* every valid code the scan collects, before the cap
AllFound(text) == SelectSeq(FoundBy(zonePatterns, Len(zonePatterns), text), validZone)

Failed(n) == {k \in 1..n : FailedAt(k)}

====
